---- MODULE Spec2Model ----
(***************************************************************************)
(* Rotating log file of package rotate (github.com/stkali/utility).       *)
(* One File object, its callers, the detached cleanup goroutine and the   *)
(* directory that holds the active file and its backups.                  *)
(***************************************************************************)
EXTENDS Integers, Sequences, FiniteSets, TLC

VARIABLES
    constructed,  \* NewFile has returned a *File
    crashed,      \* a goroutine panicked: the process is gone
    option,       \* f.option
    mode,         \* f.mode, bitmask of SizeRotate | DurationRotate
    recorder,     \* f.recorder: "nil" or the open handle "fd"
    used,         \* f.used
    ticker,       \* f.ticker: "nil" or "armed"
    cleaning,     \* f.cleaning (atomic.Bool)
    mtx,          \* f.mtx: 0 when free, else the thread that holds it
    pc,           \* position of every caller thread
    sweep,        \* the sweep body each executor is running
    active,       \* size of the file at f.fullPath, NoFile when absent
    dir,          \* names of the backup files in the directory
    now,          \* wall clock
    cwdIsDir      \* the process works in the directory of the rotating file

vars == <<constructed, crashed, option, mode, recorder, used, ticker, cleaning,
          mtx, pc, sweep, active, dir, now, cwdIsDir>>

----------------------------------------------------------------------------
(* Bounds of the model *)

MaxTime == 3
MaxWrite == 2
MaxBytes == 3

(* Ticks of the clock per unit of the backup time format *)
Resolution == 2

(* Program constants *)
SizeRotate == 1
DurationRotate == 2
WriteMode == 128
defaultBackups == 30
defaultModePerm == 420

NoFile == -1
NilFD == "nil"

Threads == {1, 2}
Callers == {1}
Goroutine == 0
Executors == {Goroutine} \cup Threads

Stamps == 0 .. (MaxTime \div Resolution)

(* two of the strings RandString may return, in their lexical order *)
Salts == {1, 2}
Names == Stamps \X Salts

----------------------------------------------------------------------------
(* Pure helpers *)

HasBit(m, b) == (m \div b) % 2 = 1
SetBit(m, b) == IF HasBit(m, b) THEN m ELSE m + b
ClearBit(m, b) == IF HasBit(m, b) THEN m - b ELSE m

(* now.Format(BackupTimeFormat) with the fixed-width default format: the  *)
(* digits below the format's resolution are dropped.                      *)
Format(t) == t \div Resolution

(* NextBackupFile: prefix + time string + salt + ext.  Prefix and ext are *)
(* the same in every name, so a name is its time string and its salt.     *)
NextBackupFile(t, salt) == <<Format(t), salt>>

(* Go string comparison of two backup names *)
NameLess(a, b) == a[1] < b[1] \/ (a[1] = b[1] /\ a[2] < b[2])

RECURSIVE SortStrings(_)
SortStrings(S) ==
    IF S = {} THEN <<>>
    ELSE LET m == CHOOSE x \in S : \A y \in S : ~NameLess(y, x)
         IN <<m>> \o SortStrings(S \ {m})

(* A file name is a pair: a backup name is its time string and its salt; *)
(* a first component below 0 stands for a name that does not start with  *)
(* f.rotatingFilePrefix, a second component 0 for one that does not end  *)
(* with f.ext.                                                           *)
HasPrefix(nm) == nm[1] >= 0
HasSuffix(nm) == nm[2] >= 1

(* f.filename = name + ext: the extension, not the prefix *)
ActiveName == <<-1, 1>>

(* files of other programs in the directory: one with neither prefix nor *)
(* extension, one with the prefix and another extension                  *)
Others == {<<-1, 0>>, <<0, 0>>}

(* os.ReadDir(f.path): the files of d and the active file if it is there *)
ReadDir(d, act) == IF act = NoFile THEN d ELSE d \cup {ActiveName}

(* BackupFiles keeps every entry, whatever its name *)
BackupFiles_unfiltered(d) == d

IsBackupFile(nm) == HasPrefix(nm) /\ HasSuffix(nm)
BackupFiles(d) == {nm \in d : IsBackupFile(nm)}

(* A name with the prefix and the extension and fewer characters between *)
(* them than the time format has, such as rotating-app-9.log: it is       *)
(* shorter than len(prefix) + len(BackupTimeFormat), passes IsBackupFile  *)
(* and sorts after the names NextBackupFile makes.                        *)
ShortStamp == (MaxTime \div Resolution) + 1
ShortName == <<ShortStamp, 1>>

(* len(s) < width, for a name s that has the prefix *)
Short(nm) == nm[1] = ShortStamp

(* IndexFunc with the comparison s[:width] > limit *)
IndexFunc_strict(backups, limit) ==
    LET hits == {i \in 1 .. Len(backups) : backups[i][1] > limit}
    IN IF hits = {} THEN -1
       ELSE (CHOOSE i \in hits : \A j \in hits : i <= j) - 1

(* slices.IndexFunc(backups, func(s) bool { return s[:width] >= limit }),  *)
(* 0-based, -1 when no entry qualifies                                     *)
IndexFunc(backups, limit) ==
    LET hits == {i \in 1 .. Len(backups) : backups[i][1] >= limit}
    IN IF hits = {} THEN -1
       ELSE (CHOOSE i \in hits : \A j \in hits : i <= j) - 1

(* The first deleteIndex entries of the sorted list are removed *)
deleteIndex(backups, opt, t) ==
    LET length == Len(backups)
        byCount == IF opt.Backups > 0 /\ length - opt.Backups > 0
                   THEN length - opt.Backups ELSE 0
        index == IndexFunc(backups, Format(t - opt.MaxAge))
    IN IF opt.MaxAge > 0
       THEN (IF index = -1 THEN length ELSE index)
       ELSE byCount

(* The slice s[:width] in the function given to slices.IndexFunc is out *)
(* of range for a short name: cleanBackups panics when the search gets   *)
(* to one, which it does when no entry before it has stopped the search  *)
cleanBackupsPanics(d, opt, t) ==
    LET backups == SortStrings(BackupFiles(d))
        limit == Format(t - opt.MaxAge)
    IN /\ Len(backups) # 0
       /\ opt.Backups # 0
       /\ opt.MaxAge > 0
       /\ \E i \in 1 .. Len(backups) :
             /\ Short(backups[i])
             /\ \A j \in 1 .. i - 1 : ~Short(backups[j]) /\ backups[j][1] < limit

(* cleanBackups without the branch for Backups = 0 *)
cleanBackups_noZeroBranch(d, opt, t) ==
    LET backups == SortStrings(BackupFiles(d))
        cut == deleteIndex(backups, opt, t)
    IN IF Len(backups) = 0 THEN {}
       ELSE {backups[i] : i \in 1 .. cut}

(* cleanBackups: the set of names the sweep removes from listing d *)
cleanBackups(d, opt, t) ==
    LET backups == SortStrings(BackupFiles(d))
        cut == deleteIndex(backups, opt, t)
    IN IF Len(backups) = 0 THEN {}
       ELSE IF opt.Backups = 0 THEN BackupFiles(d)
       ELSE {backups[i] : i \in 1 .. cut}

(* deleteBackupFiles *)
deleteBackupFiles(d, files) == d \ files

----------------------------------------------------------------------------
(* Inputs the callers and the environment may supply *)

Sizes == {0, 2}
SetSizes == {-1, 1}
Durations == {0, 2}
BackupCounts == {-1, 0, 1, 2}
Ages == {0, 1, 2}
Perms == {0, 127, 420}
SetPerms == {0, 127, 384, 420}
Faults == {"none", "write", "short", "close", "rename", "open", "stat"}
OpenFaults == {"none", "open"}
CloseFaults == {"none", "close"}
ListFaults == {"none", "list"}

Options == [Duration : Durations, MaxSize : Sizes, Backups : {-1, 0, 1},
            CleanupBlock : {TRUE}, MaxAge : {0}, ModePerm : Perms]

NoOption == [Duration |-> 0, MaxSize |-> 0, Backups |-> 0,
             CleanupBlock |-> FALSE, MaxAge |-> 0, ModePerm |-> 0]

Idle == [st |-> "idle", del |-> {}]
Started == [st |-> "start", del |-> {}]

----------------------------------------------------------------------------
(* Construction *)

(* Option.validate: the option as NewFile keeps it, or the error *)
validate(o) ==
    LET o1 == IF o.Backups = 0 THEN [o EXCEPT !.Backups = defaultBackups] ELSE o
    IN IF o1.ModePerm # 0 /\ ~HasBit(o1.ModePerm, WriteMode)
       THEN [err |-> "ModePermissionError", option |-> o1]
       ELSE IF o1.ModePerm = 0
            THEN [err |-> "nil", option |-> [o1 EXCEPT !.ModePerm = defaultModePerm]]
            ELSE [err |-> "nil", option |-> o1]

(* the error NewFile returns *)
NewFileErr(named, o) ==
    IF ~named THEN "NotSpecifyFileError" ELSE validate(o).err

NewFile(named, o) ==
    /\ ~constructed
    /\ IF NewFileErr(named, o) # "nil"
       THEN UNCHANGED <<constructed, option, mode>>
       ELSE /\ constructed' = TRUE
            /\ option' = validate(o).option
            /\ mode' = (IF o.Duration > 0 THEN DurationRotate ELSE 0)
                       + (IF o.MaxSize > 0 THEN SizeRotate ELSE 0)
    /\ UNCHANGED <<crashed, recorder, used, ticker, cleaning, mtx, pc, sweep,
                   active, dir, now, cwdIsDir>>

Live(t) == constructed /\ ~crashed /\ pc[t] = "idle"

(* check: open the target file when no handle is open *)
check(t, flt) ==
    /\ Live(t) /\ mtx = 0
    /\ IF recorder = NilFD
       THEN IF flt = "open"
            THEN UNCHANGED <<recorder, used, active>>
            ELSE /\ recorder' = "fd"
                 /\ used' = 0
                 /\ active' = IF active = NoFile THEN 0 ELSE active
       ELSE UNCHANGED <<recorder, used, active>>
    /\ UNCHANGED <<constructed, crashed, option, mode, ticker, cleaning, mtx, pc,
                   sweep, dir, now, cwdIsDir>>

----------------------------------------------------------------------------
(* Rotation *)

(* CleanBackups as rotate calls it, on the state r the roll has produced: *)
(* skipped when a sweep is in flight; else the flag is taken and the      *)
(* sweep is run by the caller itself when CleanupBlock, by a goroutine    *)
(* when not                                                               *)
CleanFromRoll(r) ==
    IF r.cleaning THEN r
    ELSE [r EXCEPT !.cleaning = TRUE,
                   !.spawn = IF option.CleanupBlock THEN "self" ELSE "go"]

(* setFD on the handle rotate has just created *)
setFD(r, flt) ==
    LET armed == [r EXCEPT !.recorder = "fd", !.used = 0,
                           !.ticker = IF HasBit(mode, DurationRotate) /\ r.ticker = "nil"
                                      THEN "armed" ELSE r.ticker]
    IN IF HasBit(mode, SizeRotate)
       THEN IF flt = "stat" THEN [armed EXCEPT !.err = "stat"]
            ELSE [armed EXCEPT !.used = armed.active]
       ELSE armed

(* rotate that does not look at the error of f.close() *)
rotate_closeIgnored(act, u, salt, flt) ==
    LET backupFile == NextBackupFile(now, salt)
        closed == [recorder |-> NilFD, used |-> 0, ticker |-> ticker, active |-> act,
                   dir |-> dir, cleaning |-> cleaning, spawn |-> "no", err |-> "nil"]
        renamed == option.Backups # 0 /\ flt # "rename"
        moved == IF renamed
                 THEN [closed EXCEPT !.dir = dir \cup {backupFile}, !.active = NoFile]
                 ELSE closed
    IN IF option.Backups # 0 /\ act = NoFile THEN closed
       ELSE IF flt = "open" THEN [moved EXCEPT !.err = "open"]
       ELSE LET fresh == setFD([moved EXCEPT !.active = 0], flt)
            IN IF fresh.err # "nil" THEN fresh
               ELSE IF option.Backups > 0 THEN CleanFromRoll(fresh)
               ELSE fresh

(* rotate: act and u are the active file's size and f.used when it is     *)
(* entered; the result holds the fields it leaves and the error it returns *)
rotate(act, u, salt, flt) ==
    LET backupFile == NextBackupFile(now, salt)
        closed == [recorder |-> NilFD, used |-> 0, ticker |-> ticker, active |-> act,
                   dir |-> dir, cleaning |-> cleaning, spawn |-> "no", err |-> "nil"]
        renamed == option.Backups # 0 /\ flt # "rename"
        moved == IF renamed
                 THEN [closed EXCEPT !.dir = dir \cup {backupFile}, !.active = NoFile]
                 ELSE closed
    IN IF flt = "close"
       THEN [closed EXCEPT !.recorder = recorder, !.used = u, !.err = "close"]
       ELSE IF option.Backups # 0 /\ act = NoFile THEN closed
       ELSE IF flt = "open" THEN [moved EXCEPT !.err = "open"]
       ELSE LET fresh == setFD([moved EXCEPT !.active = 0], flt)
            IN IF fresh.err # "nil" THEN fresh
               ELSE IF option.Backups > 0 THEN CleanFromRoll(fresh)
               ELSE fresh

(* rotate calls itself again while paths.IsExisted(backupFilename) holds; *)
(* the name is looked up in the working directory of the process          *)
Retried(salt, flt) ==
    /\ flt # "close"
    /\ option.Backups # 0
    /\ cwdIsDir
    /\ NextBackupFile(now, salt) \in dir

----------------------------------------------------------------------------
(* Writing *)

(* the test of Write against MaxSize, off by one *)
Exceeds_offByOne(u) == u > option.MaxSize + 1

(* the test that sends Write into rotate: f.used > f.option.MaxSize *)
Exceeds(u) == u > option.MaxSize

(* Write that does not take f.mtx before it touches the handle *)
Write_noLock(t, n, salt, flt) ==
    /\ Live(t)
    /\ UNCHANGED <<constructed, option, mode, now, cwdIsDir>>
    /\ IF recorder = NilFD
       THEN \* f.recorder.Write on a nil interface value panics
            /\ crashed' = TRUE
            /\ UNCHANGED <<recorder, used, ticker, cleaning, mtx, pc, sweep, active, dir>>
       ELSE IF flt = "write"
       THEN \* recorder.Write fails and has written nothing
            UNCHANGED <<crashed, recorder, used, ticker, cleaning, mtx, pc, sweep,
                        active, dir>>
       ELSE IF flt = "short"
       THEN \* recorder.Write fails after all but the last byte
            /\ n >= 2
            /\ active = NoFile \/ active + n - 1 <= MaxBytes
            /\ active' = IF active = NoFile THEN NoFile ELSE active + n - 1
            /\ UNCHANGED <<crashed, recorder, used, ticker, cleaning, mtx, pc, sweep,
                           dir>>
       ELSE /\ used + n <= MaxBytes
            /\ active = NoFile \/ active + n <= MaxBytes
            /\ LET act == IF active = NoFile THEN NoFile ELSE active + n
                   u == used + n
               IN IF Exceeds(u)
                  THEN /\ ~Retried(salt, flt)
                       /\ LET r == rotate(act, u, salt, flt)
                          IN /\ recorder' = r.recorder
                             /\ used' = r.used
                             /\ ticker' = r.ticker
                             /\ active' = r.active
                             /\ dir' = r.dir
                             /\ cleaning' = r.cleaning
                             /\ sweep' = CASE r.spawn = "go" ->
                                                 [sweep EXCEPT ![Goroutine] = Started]
                                            [] r.spawn = "self" ->
                                                 [sweep EXCEPT ![t] = Started]
                                            [] OTHER -> sweep
                             /\ pc' = IF r.spawn = "self"
                                      THEN [pc EXCEPT ![t] = "sweep"] ELSE pc
                             /\ mtx' = IF r.spawn = "self" THEN t ELSE mtx
                  ELSE /\ used' = u
                       /\ active' = act
                       /\ UNCHANGED <<recorder, ticker, dir, cleaning, mtx, pc, sweep>>
            /\ UNCHANGED crashed

(* Write, holding f.mtx from entry to return.  When the roll runs the    *)
(* sweep itself, the step ends where cleanBackups starts: the caller      *)
(* keeps f.mtx and goes on as the executor of the sweep.                  *)
Write(t, n, salt, flt) ==
    /\ Live(t) /\ mtx = 0
    /\ UNCHANGED <<constructed, option, mode, now, cwdIsDir>>
    /\ IF recorder = NilFD
       THEN \* f.recorder.Write on a nil interface value panics
            /\ crashed' = TRUE
            /\ UNCHANGED <<recorder, used, ticker, cleaning, mtx, pc, sweep, active, dir>>
       ELSE IF flt = "write"
       THEN \* recorder.Write fails and has written nothing
            UNCHANGED <<crashed, recorder, used, ticker, cleaning, mtx, pc, sweep,
                        active, dir>>
       ELSE IF flt = "short"
       THEN \* recorder.Write fails after all but the last byte
            /\ n >= 2
            /\ active = NoFile \/ active + n - 1 <= MaxBytes
            /\ active' = IF active = NoFile THEN NoFile ELSE active + n - 1
            /\ UNCHANGED <<crashed, recorder, used, ticker, cleaning, mtx, pc, sweep,
                           dir>>
       ELSE /\ used + n <= MaxBytes
            /\ active = NoFile \/ active + n <= MaxBytes
            /\ LET act == IF active = NoFile THEN NoFile ELSE active + n
                   u == used + n
               IN IF Exceeds(u)
                  THEN /\ ~Retried(salt, flt)
                       /\ LET r == rotate(act, u, salt, flt)
                          IN /\ recorder' = r.recorder
                             /\ used' = r.used
                             /\ ticker' = r.ticker
                             /\ active' = r.active
                             /\ dir' = r.dir
                             /\ cleaning' = r.cleaning
                             /\ sweep' = CASE r.spawn = "go" ->
                                                 [sweep EXCEPT ![Goroutine] = Started]
                                            [] r.spawn = "self" ->
                                                 [sweep EXCEPT ![t] = Started]
                                            [] OTHER -> sweep
                             /\ pc' = IF r.spawn = "self"
                                      THEN [pc EXCEPT ![t] = "sweep"] ELSE pc
                             /\ mtx' = IF r.spawn = "self" THEN t ELSE mtx
                  ELSE /\ used' = u
                       /\ active' = act
                       /\ UNCHANGED <<recorder, ticker, dir, cleaning, mtx, pc, sweep>>
            /\ UNCHANGED crashed

(* the error Write returns, with a failure of recorder.Write reported as *)
(* success                                                               *)
WriteErr_swallows(n, salt, flt) ==
    IF Exceeds(used + n)
    THEN rotate(IF active = NoFile THEN NoFile ELSE active + n,
                used + n, salt, flt).err
    ELSE "nil"

(* the error Write returns when it is called with these inputs on an open *)
(* handle: that of recorder.Write, else that of rotate, else nil          *)
WriteErr(n, salt, flt) ==
    IF flt \in {"write", "short"} THEN "write"
    ELSE IF Exceeds(used + n)
         THEN rotate(IF active = NoFile THEN NoFile ELSE active + n,
                     used + n, salt, flt).err
         ELSE "nil"

(* A fault is injected only where Write gets to the call that may fail    *)
(* with it: os.Rename runs when backups are kept and the active file is   *)
(* there, MakeFile and setFD follow unless the rename found no file, and  *)
(* Stat is called in size mode.                                           *)
Reaches(n, flt) ==
    LET rolls == recorder # NilFD /\ Exceeds(used + n)
        gone == option.Backups # 0 /\ active = NoFile
    IN CASE flt = "none" -> TRUE
         [] flt = "write" -> recorder # NilFD
         [] flt = "short" -> recorder # NilFD /\ n >= 2
         [] flt = "close" -> rolls
         [] flt = "rename" -> rolls /\ option.Backups # 0 /\ ~gone
         [] flt = "open" -> rolls /\ ~gone
         [] flt = "stat" -> rolls /\ ~gone /\ HasBit(mode, SizeRotate)

(* The salts RandString may give: it is called when rotate makes a name *)
Drawn(n, flt) ==
    IF recorder # NilFD /\ Exceeds(used + n) /\ flt \notin {"write", "short", "close"}
       /\ option.Backups # 0
    THEN Salts ELSE {1}

(* the inputs of a Write of n bytes *)
WriteInputs(n) ==
    {inp \in Faults \X Salts : Reaches(n, inp[1]) /\ inp[2] \in Drawn(n, inp[1])}

----------------------------------------------------------------------------
(* Retention sweep *)

(* CleanBackups without the test of f.cleaning: every call sweeps *)
CleanBackups_noCAS(t) ==
    /\ Live(t)
    /\ cleaning' = TRUE
    /\ IF option.CleanupBlock
       THEN /\ pc' = [pc EXCEPT ![t] = "sweep"]
            /\ sweep' = [sweep EXCEPT ![t] = Started]
       ELSE /\ sweep' = [sweep EXCEPT ![Goroutine] = Started]
            /\ UNCHANGED pc
    /\ UNCHANGED <<constructed, crashed, option, mode, recorder, used, ticker, mtx,
                   active, dir, now, cwdIsDir>>

(* CleanBackups called by a user of the File *)
CleanBackups(t) ==
    /\ Live(t)
    /\ IF cleaning
       THEN UNCHANGED <<cleaning, pc, sweep>>
       ELSE /\ cleaning' = TRUE
            /\ IF option.CleanupBlock
               THEN /\ pc' = [pc EXCEPT ![t] = "sweep"]
                    /\ sweep' = [sweep EXCEPT ![t] = Started]
               ELSE /\ sweep' = [sweep EXCEPT ![Goroutine] = Started]
                    /\ UNCHANGED pc
    /\ UNCHANGED <<constructed, crashed, option, mode, recorder, used, ticker, mtx,
                   active, dir, now, cwdIsDir>>

(* the error cleanBackups returns: that of BackupFiles; the failures of *)
(* os.Remove are logged by deleteBackupFiles, which returns nil         *)
cleanBackupsErr(flt) == IF flt = "list" THEN "list" ELSE "nil"

(* the error CleanBackups returns to a caller that took the flag: in    *)
(* blocking mode that of cleanBackups, else nil                         *)
CleanBackupsErr(block, flt) == IF block THEN cleanBackupsErr(flt) ELSE "nil"

(* the return of the executor without the deferred Store(false) *)
Finish_keepsFlag(e) ==
    /\ cleaning' = cleaning
    /\ sweep' = [sweep EXCEPT ![e] = Idle]
    /\ pc' = IF e \in Threads THEN [pc EXCEPT ![e] = "idle"] ELSE pc
    /\ mtx' = IF mtx = e THEN 0 ELSE mtx

(* The executor has run the deferred f.cleaning.Store(false) and         *)
(* returned; a caller that swept for its own roll returns from Write and  *)
(* unlocks f.mtx                                                          *)
Finish(e) ==
    /\ cleaning' = FALSE
    /\ sweep' = [sweep EXCEPT ![e] = Idle]
    /\ pc' = IF e \in Threads THEN [pc EXCEPT ![e] = "idle"] ELSE pc
    /\ mtx' = IF mtx = e THEN 0 ELSE mtx

(* cleanBackups returning the error of the listing with f.cleaning left *)
(* as it is                                                              *)
SweepList_leaksOnError(e, flt) ==
    /\ ~crashed
    /\ sweep[e].st = "start"
    /\ IF flt = "list"
       THEN Finish_keepsFlag(e) /\ UNCHANGED crashed
       ELSE IF cleanBackupsPanics(ReadDir(dir, active), option, now)
       THEN \* the panic unwinds out of the sweep; nothing recovers it
            /\ crashed' = TRUE
            /\ UNCHANGED <<cleaning, pc, mtx, sweep>>
       ELSE /\ sweep' = [sweep EXCEPT ![e] = [st |-> "listed",
                                              del |-> cleanBackups(ReadDir(dir, active),
                                                                   option, now)]]
            /\ UNCHANGED <<crashed, cleaning, pc, mtx>>
    /\ UNCHANGED <<constructed, option, mode, recorder, used, ticker,
                   active, dir, now, cwdIsDir>>

(* cleanBackups up to the choice of the files to delete *)
SweepList(e, flt) ==
    /\ ~crashed
    /\ sweep[e].st = "start"
    /\ IF flt = "list"
       THEN Finish(e) /\ UNCHANGED crashed
       ELSE IF cleanBackupsPanics(ReadDir(dir, active), option, now)
       THEN \* the panic unwinds out of the sweep; nothing recovers it
            /\ crashed' = TRUE
            /\ UNCHANGED <<cleaning, pc, mtx, sweep>>
       ELSE /\ sweep' = [sweep EXCEPT ![e] = [st |-> "listed",
                                              del |-> cleanBackups(ReadDir(dir, active),
                                                                   option, now)]]
            /\ UNCHANGED <<crashed, cleaning, pc, mtx>>
    /\ UNCHANGED <<constructed, option, mode, recorder, used, ticker,
                   active, dir, now, cwdIsDir>>

(* a sweep that takes f.mtx for its deletions *)
SweepDelete_needsLock(e) ==
    /\ ~crashed
    /\ sweep[e].st = "listed"
    /\ mtx = 0
    /\ dir' = deleteBackupFiles(dir, sweep[e].del)
    /\ active' = IF ActiveName \in sweep[e].del THEN NoFile ELSE active
    /\ Finish(e)
    /\ UNCHANGED <<constructed, crashed, option, mode, recorder, used, ticker,
                   now, cwdIsDir>>

(* deleteBackupFiles on the chosen files, and the return of cleanBackups *)
SweepDelete(e) ==
    /\ ~crashed
    /\ sweep[e].st = "listed"
    /\ dir' = deleteBackupFiles(dir, sweep[e].del)
    /\ active' = IF ActiveName \in sweep[e].del THEN NoFile ELSE active
    /\ Finish(e)
    /\ UNCHANGED <<constructed, crashed, option, mode, recorder, used, ticker,
                   now, cwdIsDir>>

----------------------------------------------------------------------------
(* Close *)

(* the loop of Close: for !f.option.CleanupBlock && f.cleaning.Load() {} *)
Waits == ~option.CleanupBlock /\ cleaning

(* Close takes the lock and finds a detached sweep to wait for *)
CloseLock(t) ==
    /\ Live(t) /\ mtx = 0
    /\ Waits
    /\ mtx' = t
    /\ pc' = [pc EXCEPT ![t] = "closing"]
    /\ UNCHANGED <<constructed, crashed, option, mode, recorder, used, ticker,
                   cleaning, sweep, active, dir, now, cwdIsDir>>

(* the error Close returns: that of closer.Close, which is called only *)
(* on a handle that is there                                           *)
CloseErr(flt) == IF recorder # NilFD /\ flt = "close" THEN "close" ELSE "nil"

(* Close that does not stop the ticker *)
Close_keepsTicker(t, flt) ==
    /\ ~crashed
    /\ \/ Live(t) /\ mtx = 0
       \/ pc[t] = "closing"
    /\ ~Waits
    /\ IF recorder # NilFD /\ flt = "close"
       THEN UNCHANGED <<recorder, used, ticker>>
       ELSE /\ recorder' = NilFD
            /\ used' = 0
            /\ UNCHANGED ticker
    /\ mtx' = 0
    /\ pc' = [pc EXCEPT ![t] = "idle"]
    /\ UNCHANGED <<constructed, crashed, option, mode, cleaning, sweep, active, dir,
                   now, cwdIsDir>>

(* Close from the lock on when it has nothing to wait for, or from the   *)
(* end of the wait: close the handle, stop the ticker, unlock             *)
Close(t, flt) ==
    /\ ~crashed
    /\ \/ Live(t) /\ mtx = 0
       \/ pc[t] = "closing"
    /\ ~Waits
    /\ IF recorder # NilFD /\ flt = "close"
       THEN UNCHANGED <<recorder, used, ticker>>
       ELSE /\ recorder' = NilFD
            /\ used' = 0
            /\ ticker' = "nil"
    /\ mtx' = 0
    /\ pc' = [pc EXCEPT ![t] = "idle"]
    /\ UNCHANGED <<constructed, crashed, option, mode, cleaning, sweep, active, dir,
                   now, cwdIsDir>>

----------------------------------------------------------------------------
(* Policy mutators *)

SetDuration(t, duration) ==
    /\ Live(t) /\ mtx = 0
    /\ mode' = IF duration <= 0 THEN ClearBit(mode, DurationRotate)
               ELSE SetBit(mode, DurationRotate)
    /\ option' = [option EXCEPT !.Duration = duration]
    /\ UNCHANGED <<constructed, crashed, recorder, used, ticker, cleaning, mtx, pc,
                   sweep, active, dir, now, cwdIsDir>>

(* SetMaxSize that stores the size and leaves the mode bits as they were *)
SetMaxSize_keepsMode(t, size) ==
    /\ Live(t) /\ mtx = 0
    /\ option' = [option EXCEPT !.MaxSize = size]
    /\ UNCHANGED <<constructed, crashed, mode, recorder, used, ticker, cleaning,
                   mtx, pc, sweep, active, dir, now, cwdIsDir>>

SetMaxSize(t, size) ==
    /\ Live(t) /\ mtx = 0
    /\ mode' = IF size <= 0 THEN ClearBit(mode, SizeRotate)
               ELSE SetBit(mode, SizeRotate)
    /\ option' = [option EXCEPT !.MaxSize = size]
    /\ UNCHANGED <<constructed, crashed, recorder, used, ticker, cleaning, mtx, pc,
                   sweep, active, dir, now, cwdIsDir>>

(* what a caller of SetBackups gets back: the method has no result, it *)
(* reports no error for any number                                    *)
SetBackupsErr(number) == "nil"

SetBackups(t, number) ==
    /\ Live(t)
    /\ option' = [option EXCEPT !.Backups = number]
    /\ UNCHANGED <<constructed, crashed, mode, recorder, used, ticker, cleaning, mtx,
                   pc, sweep, active, dir, now, cwdIsDir>>

SetMaxAge(t, age) ==
    /\ Live(t)
    /\ option' = [option EXCEPT !.MaxAge = age]
    /\ UNCHANGED <<constructed, crashed, mode, recorder, used, ticker, cleaning, mtx,
                   pc, sweep, active, dir, now, cwdIsDir>>

SetBlock(t, block) ==
    /\ Live(t)
    /\ option' = [option EXCEPT !.CleanupBlock = block]
    /\ UNCHANGED <<constructed, crashed, mode, recorder, used, ticker, cleaning, mtx,
                   pc, sweep, active, dir, now, cwdIsDir>>

(* the error SetModePerm returns *)
SetModePermErr(perm) ==
    IF ~HasBit(perm, WriteMode) THEN "ModePermissionError" ELSE "nil"

(* SetModePerm without the test of the owner-write bit *)
SetModePerm_unchecked(t, perm) ==
    /\ Live(t)
    /\ option' = [option EXCEPT !.ModePerm = perm]
    /\ UNCHANGED <<constructed, crashed, mode, recorder, used, ticker, cleaning, mtx,
                   pc, sweep, active, dir, now, cwdIsDir>>

SetModePerm(t, perm) ==
    /\ Live(t)
    /\ IF SetModePermErr(perm) # "nil"
       THEN UNCHANGED option
       ELSE option' = [option EXCEPT !.ModePerm = perm]
    /\ UNCHANGED <<constructed, crashed, mode, recorder, used, ticker, cleaning, mtx,
                   pc, sweep, active, dir, now, cwdIsDir>>

----------------------------------------------------------------------------
(* Environment *)

Tick ==
    /\ now < MaxTime
    /\ now' = now + 1
    /\ UNCHANGED <<constructed, crashed, option, mode, recorder, used, ticker,
                   cleaning, mtx, pc, sweep, active, dir, cwdIsDir>>

(* somebody else removes the active file *)
ExternalDelete ==
    /\ constructed /\ ~crashed
    /\ active # NoFile
    /\ active' = NoFile
    /\ UNCHANGED <<constructed, crashed, option, mode, recorder, used, ticker,
                   cleaning, mtx, pc, sweep, dir, now, cwdIsDir>>

----------------------------------------------------------------------------
(* The File and its callers *)

Init ==
    /\ constructed = FALSE
    /\ crashed = FALSE
    /\ option = NoOption
    /\ mode = 0
    /\ recorder = NilFD
    /\ used = 0
    /\ ticker = "nil"
    /\ cleaning = FALSE
    /\ mtx = 0
    /\ pc = [t \in Threads |-> "idle"]
    /\ sweep = [e \in Executors |-> Idle]
    /\ active \in {NoFile, 1}
    /\ dir = {}
    /\ now = 0
    /\ cwdIsDir = FALSE

Next ==
    \/ ~constructed /\ \E named \in BOOLEAN, o \in Options : NewFile(named, o)
    \/ \E t \in Callers, flt \in OpenFaults :
          (flt = "open" => recorder = NilFD) /\ check(t, flt)
    \/ \E t \in Callers, n \in 0 .. MaxWrite :
          \E inp \in WriteInputs(n) : Write(t, n, inp[2], inp[1])
    \/ \E t \in Callers, flt \in CloseFaults :
          (flt = "close" => recorder # NilFD) /\ Close(t, flt)
    \/ \E t \in Callers, size \in SetSizes : SetMaxSize(t, size)
    \/ \E e \in Callers, flt \in ListFaults : SweepList(e, flt)
    \/ \E e \in Callers : SweepDelete(e)
    \/ Tick
    \/ ExternalDelete

Spec == Init /\ [][Next]_vars

----------------------------------------------------------------------------
(* The retention sweep on its own: a File as NewFile(file, &Option{MaxSize: *)
(* 2, Backups: -1}) leaves it, in a directory that holds any set of        *)
(* backups of earlier runs, with the policy set through the mutators.      *)

InitSweep ==
    /\ constructed = TRUE
    /\ crashed = FALSE
    /\ option = [Duration |-> 0, MaxSize |-> 2, Backups |-> -1,
                 CleanupBlock |-> FALSE, MaxAge |-> 0, ModePerm |-> defaultModePerm]
    /\ mode = SizeRotate
    /\ recorder = NilFD
    /\ used = 0
    /\ ticker = "nil"
    /\ cleaning = FALSE
    /\ mtx = 0
    /\ pc = [t \in Threads |-> "idle"]
    /\ sweep = [e \in Executors |-> Idle]
    /\ active = NoFile
    /\ now \in 0 .. MaxTime
    /\ dir \in SUBSET {nm \in Names : nm[1] <= Format(now)}
    /\ cwdIsDir = FALSE

NextSweep ==
    \/ \E t \in Callers, k \in BackupCounts : SetBackups(t, k)
    \/ \E t \in Callers, a \in Ages : SetMaxAge(t, a)
    \/ \E t \in Callers, b \in BOOLEAN : SetBlock(t, b)
    \/ \E t \in Callers : CleanBackups(t)
    \/ \E e \in {Goroutine} \cup Callers, flt \in ListFaults : SweepList(e, flt)
    \/ \E e \in {Goroutine} \cup Callers : SweepDelete(e)

SweepSpec == InitSweep /\ [][NextSweep]_vars

----------------------------------------------------------------------------
(* Two callers and the cleanup goroutine on one File: the File as         *)
(* NewFile(file, &Option{MaxSize: 1, Backups: 1}) and check() leave it,   *)
(* written to, swept and closed by both callers.                          *)

InitConc ==
    /\ constructed = TRUE
    /\ crashed = FALSE
    /\ option = [Duration |-> 0, MaxSize |-> 1, Backups |-> 1,
                 CleanupBlock |-> FALSE, MaxAge |-> 0, ModePerm |-> defaultModePerm]
    /\ mode = SizeRotate
    /\ recorder = "fd"
    /\ used = 0
    /\ ticker = "nil"
    /\ cleaning = FALSE
    /\ mtx = 0
    /\ pc = [t \in Threads |-> "idle"]
    /\ sweep = [e \in Executors |-> Idle]
    /\ active = 0
    /\ dir = {}
    /\ now = 0
    /\ cwdIsDir = FALSE

NextConc ==
    \/ \E t \in Threads, n \in 0 .. MaxWrite :
          \E inp \in WriteInputs(n) : Write(t, n, inp[2], inp[1])
    \/ \E t \in Threads : CleanBackups(t)
    \/ \E e \in Executors, flt \in ListFaults : SweepList(e, flt)
    \/ \E e \in Executors : SweepDelete(e)
    \/ \E t \in Threads, b \in BOOLEAN : SetBlock(t, b)
    \/ \E t \in Threads : CloseLock(t)
    \/ \E t \in Threads, flt \in CloseFaults :
          (flt = "close" => recorder # NilFD) /\ Close(t, flt)
    \/ \E t \in Threads, flt \in OpenFaults :
          (flt = "open" => recorder = NilFD) /\ check(t, flt)
    \/ Tick

ConcSpec == InitConc /\ [][NextConc]_vars

(* An executor that is inside cleanBackups goes on: the sweep takes no *)
(* lock and waits for nobody, so the scheduler lets it take its steps  *)
SweepFairness ==
    \A e \in Executors :
        /\ WF_vars(\E flt \in ListFaults : SweepList(e, flt))
        /\ WF_vars(SweepDelete(e))

FairConcSpec == InitConc /\ [][NextConc]_vars /\ SweepFairness

(* The loop of Close reads f.cleaning over and over: when the flag is  *)
(* down again and again, one of its reads finds it down and Close goes *)
(* on to its return                                                    *)
CloseFairness ==
    \A t \in Threads :
        SF_vars(/\ pc[t] = "closing"
                /\ \E flt \in CloseFaults :
                      (flt = "close" => recorder # NilFD) /\ Close(t, flt))

FairCloseSpec == InitConc /\ [][NextConc]_vars /\ SweepFairness /\ CloseFairness

----------------------------------------------------------------------------
(* The retention sweep in a directory that holds other files too *)

InitDir ==
    /\ constructed = TRUE
    /\ crashed = FALSE
    /\ option = [Duration |-> 0, MaxSize |-> 2, Backups |-> -1,
                 CleanupBlock |-> FALSE, MaxAge |-> 0, ModePerm |-> defaultModePerm]
    /\ mode = SizeRotate
    /\ recorder = NilFD
    /\ used = 0
    /\ ticker = "nil"
    /\ cleaning = FALSE
    /\ mtx = 0
    /\ pc = [t \in Threads |-> "idle"]
    /\ sweep = [e \in Executors |-> Idle]
    /\ active \in {NoFile, 1}
    /\ now = MaxTime
    /\ dir \in SUBSET ({nm \in Names : nm[2] = 1} \cup Others)
    /\ cwdIsDir = FALSE

DirSpec == InitDir /\ [][NextSweep]_vars

(* The sweep in a directory that may hold, next to backups of earlier *)
(* runs, a file with a short name                                      *)
InitShort ==
    /\ constructed = TRUE
    /\ crashed = FALSE
    /\ option = [Duration |-> 0, MaxSize |-> 2, Backups |-> -1,
                 CleanupBlock |-> FALSE, MaxAge |-> 0, ModePerm |-> defaultModePerm]
    /\ mode = SizeRotate
    /\ recorder = NilFD
    /\ used = 0
    /\ ticker = "nil"
    /\ cleaning = FALSE
    /\ mtx = 0
    /\ pc = [t \in Threads |-> "idle"]
    /\ sweep = [e \in Executors |-> Idle]
    /\ active \in {NoFile, 1}
    /\ now = MaxTime
    /\ dir \in SUBSET ({nm \in Names : nm[2] = 1} \cup {ShortName})
    /\ cwdIsDir = FALSE

ShortSpec == InitShort /\ [][NextSweep]_vars

----------------------------------------------------------------------------
(* Rolls of two writers against SetBackups, from a File that is        *)
(* constructed and opened                                               *)

InitRoll ==
    /\ constructed = TRUE
    /\ crashed = FALSE
    /\ option \in [Duration : {0}, MaxSize : {1}, Backups : {1}, CleanupBlock : BOOLEAN,
                   MaxAge : {0}, ModePerm : {defaultModePerm}]
    /\ mode = SizeRotate
    /\ recorder = "fd"
    /\ used = 0
    /\ ticker = "nil"
    /\ cleaning = FALSE
    /\ mtx = 0
    /\ pc = [t \in Threads |-> "idle"]
    /\ sweep = [e \in Executors |-> Idle]
    /\ active = 0
    /\ dir = {}
    /\ now = 0
    /\ cwdIsDir = FALSE

NextRoll ==
    \/ \E t \in Threads, n \in 0 .. MaxWrite :
          \E inp \in WriteInputs(n) : Write(t, n, inp[2], inp[1])
    \/ \E e \in Executors, flt \in ListFaults : SweepList(e, flt)
    \/ \E e \in Executors : SweepDelete(e)
    \/ \E t \in Threads, k \in BackupCounts : SetBackups(t, k)

RollSpec == InitRoll /\ [][NextRoll]_vars

----------------------------------------------------------------------------
(* The constructor and the policy mutators on their own *)

NextPolicy ==
    \/ ~constructed /\ \E named \in BOOLEAN, o \in Options : NewFile(named, o)
    \/ \E t \in Callers, duration \in Durations : SetDuration(t, duration)
    \/ \E t \in Callers, size \in SetSizes : SetMaxSize(t, size)
    \/ \E t \in Callers, k \in BackupCounts : SetBackups(t, k)
    \/ \E t \in Callers, a \in Ages : SetMaxAge(t, a)
    \/ \E t \in Callers, b \in BOOLEAN : SetBlock(t, b)
    \/ \E t \in Callers, perm \in SetPerms : SetModePerm(t, perm)

PolicySpec == Init /\ [][NextPolicy]_vars

----------------------------------------------------------------------------
(* Steps of Write, for the properties below *)

(* a Write of n bytes on an open handle with no failure injected *)
WroteClean(n) ==
    /\ recorder # NilFD
    /\ \E t \in Threads, salt \in Salts : Write(t, n, salt, "none")

(* a Write of n bytes on an open handle that returned a nil error *)
WroteNil(n) ==
    /\ recorder # NilFD
    /\ \E t \in Callers, inp \in WriteInputs(n) :
          /\ Write(t, n, inp[2], inp[1])
          /\ WriteErr(n, inp[2], inp[1]) = "nil"

(* a Write of n bytes whose recorder.Write succeeded *)
Wrote(n) ==
    /\ recorder # NilFD
    /\ \E t \in Threads, salt \in Salts, flt \in Faults \ {"write", "short"} : Write(t, n, salt, flt)

(* the step appended n bytes and did nothing else to the files *)
NoRoll(n) ==
    /\ used' = used + n
    /\ dir' = dir
    /\ recorder' = recorder
    /\ active' = IF active = NoFile THEN NoFile ELSE active + n

----------------------------------------------------------------------------
(* Properties of the write path *)

(* C1: with MaxSize = S > 0 and Backups # 0, a Write that raises Used     *)
(* above S does not roll (Used keeps the total, no backup is added), and  *)
(* the next non-empty Write of n bytes succeeds, adds exactly one backup  *)
(* and leaves Used = n.                                                   *)
C1_SizeTriggerAsTested ==
    [][\A n \in 0 .. MaxWrite :
         (WroteClean(n) /\ option.MaxSize > 0 /\ option.Backups # 0) =>
            /\ (used <= option.MaxSize /\ used + n > option.MaxSize)
                  => (used' = used + n /\ dir' = dir)
            /\ (used > option.MaxSize /\ n > 0)
                  => /\ WroteNil(n)
                     /\ Cardinality(dir') = Cardinality(dir) + 1
                     /\ used' = n]_vars

C3_NoSizeRollWhenDisabled ==
    [][\A n \in 0 .. MaxWrite :
         (WroteClean(n) /\ option.MaxSize <= 0 /\ ~HasBit(mode, SizeRotate))
            => NoRoll(n)]_vars

(* C4: on a File with Duration = d > 0 and size rotation disabled, a      *)
(* Write issued before d has elapsed since the file was opened creates no *)
(* backup and accumulates in Used.  The clock starts at 0, so now < d     *)
(* means that less than d has elapsed since any open.                     *)
C4_NoRollBeforeDuration ==
    [][\A n \in 0 .. MaxWrite :
         (WroteClean(n) /\ option.Duration > 0 /\ option.MaxSize <= 0
            /\ ~HasBit(mode, SizeRotate) /\ now < option.Duration)
            => (dir' = dir /\ used' = used + n)]_vars

(* C5: a Write called while no handle is open opens the target file and   *)
(* writes to it; it does not crash because the handle is absent.          *)
C5_LazyOpen ==
    [][\A n \in 0 .. MaxWrite :
         (recorder = NilFD /\ \E t \in Threads, salt \in Salts : Write(t, n, salt, "none"))
            => (~crashed' /\ recorder' # NilFD)]_vars

(* C6: with Backups # 0, a Write never truncates or discards the content  *)
(* of the active file unless that content was first moved into a new      *)
(* backup: when the step deletes no backup, either the active file holds  *)
(* all its bytes or the directory has gained a backup.                    *)
C6_NoLostWrites ==
    [][\A n \in 0 .. MaxWrite :
         (Wrote(n) /\ option.Backups # 0 /\ active # NoFile /\ active + n > 0
            /\ dir \subseteq dir')
            => (active' = active + n \/ dir' # dir)]_vars

----------------------------------------------------------------------------
(* Steps of a sweep, for the properties below *)

(* executor e has listed the directory and chosen the files to delete *)
Listed(e) == sweep[e].st = "start" /\ sweep'[e].st = "listed"

(* executor e has deleted the chosen files and returned *)
Deleted(e) == sweep[e].st = "listed" /\ sweep'[e].st = "idle"

(* every chosen file is gone after the delete step, and no other *)
DeleteRemovesChosen == \A e \in Executors : Deleted(e) => dir' = dir \ sweep[e].del

(* the c lexically least and the k lexically greatest names of S *)
Oldest(S, c) == {x \in S : Cardinality({y \in S : NameLess(y, x)}) < c}
Newest(S, k) == {x \in S : Cardinality({y \in S : NameLess(x, y)}) < k}

(* backups whose time string is older than that of now - MaxAge *)
Expired(S) == {x \in S : x[1] < Format(now - option.MaxAge)}

CountCut(S) == IF Cardinality(S) - option.Backups > 0
               THEN Cardinality(S) - option.Backups ELSE 0
AgeCut(S) == IF option.MaxAge > 0 THEN Cardinality(Expired(S)) ELSE 0
Max(a, b) == IF a >= b THEN a ELSE b

----------------------------------------------------------------------------
(* Properties of the retention sweep *)

(* C7: with N backups and Backups = k, 0 < k < N, and the age policy not  *)
(* deleting more than the count policy, a completed sweep leaves exactly  *)
(* the k lexically greatest names; with N <= k it deletes nothing.        *)
C7_RetentionByCount ==
    [][/\ \A e \in Executors :
            (Listed(e) /\ option.Backups > 0 /\ AgeCut(dir) <= CountCut(dir))
               => dir \ sweep'[e].del = Newest(dir, option.Backups)
       /\ DeleteRemovesChosen]_vars

(* C8: with Backups = k > 0 and MaxAge > 0 the sweep deletes the first    *)
(* max(countCut, ageCut) entries of the sorted list, so at most k backups *)
(* remain.                                                                *)
C8_MoreAggressiveCutWins ==
    [][/\ \A e \in Executors :
            (Listed(e) /\ option.Backups > 0 /\ option.MaxAge > 0)
               => /\ sweep'[e].del = Oldest(dir, Max(CountCut(dir), AgeCut(dir)))
                  /\ Cardinality(dir \ sweep'[e].del) <= option.Backups
       /\ DeleteRemovesChosen]_vars

----------------------------------------------------------------------------
(* Properties of the constructor and of the policy mutators *)

(* C11: a File that NewFile builds from an Option with Backups = 0 keeps  *)
(* Backups = 0 as its live policy, so that a roll archives nothing.       *)
C11_ZeroBackupsKept ==
    [][\A o \in Options :
         (o.Backups = 0 /\ NewFile(TRUE, o) /\ NewFileErr(TRUE, o) = "nil")
            => option'.Backups = 0]_vars

----------------------------------------------------------------------------
(* Properties of concurrent sweeps, rolls and Close *)

(* the executors that are inside cleanBackups *)
Sweeping == {e \in Executors : sweep[e].st # "idle"}

(* at most one executor is inside cleanBackups, and f.cleaning is set *)
(* while one is                                                       *)
OneSweep == Cardinality(Sweeping) <= 1 /\ (Sweeping # {} => cleaning)

(* C12: at most one execution of the sweep body is in progress at any   *)
(* time, and a CleanBackups call that finds a sweep in flight starts no *)
(* sweep and deletes nothing.                                           *)
C12_SingleFlight ==
    [][/\ OneSweep'
       /\ \A t \in Threads :
            (cleaning /\ CleanBackups(t)) => UNCHANGED <<cleaning, sweep, pc, dir>>]_vars

(* a sweep has listed the directory and a roll has since archived one  *)
(* more file, its own request for a sweep having been skipped          *)
C12_Witness ==
    /\ cleaning
    /\ option.Backups > 0 /\ option.MaxAge = 0
    /\ \E e \in Executors :
         /\ sweep[e].st = "listed"
         /\ Cardinality(dir \ sweep[e].del) > option.Backups

(* no Write, roll or Close is executing and no sweep is in flight *)
Quiescent ==
    /\ mtx = 0
    /\ \A t \in Threads : pc[t] = "idle"
    /\ Sweeping = {}
    /\ ~cleaning

(* C13: with Backups = k > 0 and no age policy, when a sweep has done   *)
(* its deletions and returned and nothing else is executing, at most k  *)
(* backup files exist, whatever requests were skipped while it ran.     *)
C13_NoCleanupLost ==
    [][\A e \in Executors :
         (SweepDelete(e) /\ Quiescent' /\ option.Backups > 0 /\ option.MaxAge = 0)
            => Cardinality(BackupFiles(dir')) <= option.Backups]_vars

(* the state a Close that returned nil leaves: no handle, no ticker *)
Closed == recorder = NilFD /\ ticker = "nil"

(* C14: a Close that returns nil leaves f.recorder and f.ticker nil, and *)
(* a Close of a File in that state returns nil and changes no field.     *)
C14_IdempotentClose ==
    [][\A t \in Threads, flt \in CloseFaults :
         Close(t, flt) =>
            /\ CloseErr(flt) = "nil" => Closed'
            /\ Closed => /\ CloseErr(flt) = "nil"
                         /\ UNCHANGED <<constructed, crashed, option, mode, recorder,
                                        used, ticker, cleaning, sweep, active, dir,
                                        now, cwdIsDir>>]_vars

(* a File in duration mode that was opened, written to and closed *)
C14_Witness ==
    /\ constructed /\ ~crashed
    /\ HasBit(mode, DurationRotate)
    /\ active > 0
    /\ Closed

(* C15: while the sweep goroutine is in flight, Close does not get to  *)
(* the closing of the handle and to its return.                        *)
C15_CloseWaitsForSweep ==
    [][\A t \in Threads, flt \in CloseFaults :
         Close(t, flt) => sweep[Goroutine].st = "idle"]_vars

----------------------------------------------------------------------------
(* Properties of the validation of the policy *)

(* C16: NewFile, given a path and an Option with Duration <= 0 and    *)
(* MaxSize <= 0, returns NotRotateError and constructs no File.       *)
C16_NeitherModeRejected ==
    [][\A o \in Options :
         (o.Duration <= 0 /\ o.MaxSize <= 0 /\ NewFile(TRUE, o))
            => (NewFileErr(TRUE, o) = "NotRotateError" /\ ~constructed')]_vars

(* C17: the ModePerm of a constructed File has the owner-write bit;    *)
(* NewFile returns ModePermissionError for a non-zero ModePerm without *)
(* it, SetModePerm returns it for a value without it and leaves the    *)
(* policy as it was.                                                   *)
C17_OwnerWriteKept ==
    [][/\ constructed' => HasBit(option'.ModePerm, WriteMode)
       /\ \A o \in Options :
            (NewFile(TRUE, o) /\ o.ModePerm # 0 /\ ~HasBit(o.ModePerm, WriteMode))
               => (NewFileErr(TRUE, o) = "ModePermissionError" /\ ~constructed')
       /\ \A t \in Callers, perm \in SetPerms :
            (SetModePerm(t, perm) /\ ~HasBit(perm, WriteMode))
               => (SetModePermErr(perm) = "ModePermissionError" /\ UNCHANGED option)]_vars

(* SetModePerm has replaced the permission bits of a constructed File *)
C17_Witness ==
    /\ constructed
    /\ option.ModePerm \notin Perms
    /\ HasBit(option.ModePerm, WriteMode)

(* C18: SetBackups(n) with n > 0 reports no error and makes Backups n, *)
(* and SetBackups(-1) reports InvalidBackupsError.                     *)
C18_SetBackupsValidates ==
    [][\A t \in Callers, k \in BackupCounts :
         SetBackups(t, k) =>
            /\ k > 0 => (SetBackupsErr(k) = "nil" /\ option'.Backups = k)
            /\ k = -1 => SetBackupsErr(k) = "InvalidBackupsError"]_vars

----------------------------------------------------------------------------
(* Properties of failing and empty writes *)

(* the faults with which recorder.Write returns an error *)
WriteFaults == {"write", "short"}

(* C19: when recorder.Write fails, Write returns an error, f.used stays  *)
(* as it was, and the call neither rolls nor starts a sweep.             *)
C19_FailedWriteCountsNothing ==
    [][\A t \in Callers, n \in 0 .. MaxWrite, flt \in WriteFaults :
         (recorder # NilFD /\ Write(t, n, 1, flt))
            => /\ WriteErr(n, 1, flt) # "nil"
               /\ UNCHANGED <<used, recorder, ticker, dir, cleaning, sweep>>]_vars

(* the handle is open with f.used at the threshold, so that one more   *)
(* byte would roll, and the active file holds bytes that f.used does   *)
(* not count, as a short write leaves it                               *)
C19_Witness ==
    /\ recorder # NilFD
    /\ HasBit(mode, SizeRotate)
    /\ option.MaxSize > 0 /\ used = option.MaxSize
    /\ active > used

(* C20: a Write of no bytes on an open handle, with no failure of the  *)
(* file system, returns nil and leaves f.used, the handle, the active  *)
(* file and the backups as they were, also when MaxSize > 0 has been   *)
(* set below f.used.                                                   *)
C20_EmptyWriteNoOp ==
    [][\A t \in Callers, salt \in Salts :
         (recorder # NilFD /\ option.MaxSize > 0 /\ Write(t, 0, salt, "none"))
            => /\ WriteErr(0, salt, "none") = "nil"
               /\ UNCHANGED <<used, recorder, active, dir>>]_vars

----------------------------------------------------------------------------
(* Properties of the failures of a roll *)

(* C21: when f.close() fails in a roll, Write returns that error and   *)
(* the roll has renamed nothing, opened and truncated nothing and      *)
(* asked for no sweep; the handle is the one it was and f.used is what *)
(* Write had made it.  Close returns the same error and keeps the      *)
(* handle.                                                             *)
C21_CloseFailureAbortsRoll ==
    [][/\ \A t \in Callers, n \in 0 .. MaxWrite :
            (recorder # NilFD /\ Exceeds(used + n) /\ Write(t, n, 1, "close"))
               => /\ WriteErr(n, 1, "close") = "close"
                  /\ recorder' = recorder
                  /\ used' = used + n
                  /\ active' = IF active = NoFile THEN NoFile ELSE active + n
                  /\ UNCHANGED <<dir, ticker, cleaning, sweep>>
       /\ \A t \in Callers :
            (recorder # NilFD /\ Close(t, "close"))
               => (CloseErr("close") = "close" /\ UNCHANGED <<recorder, used, ticker>>)]_vars

(* a roll was aborted by the close error: the handle is open and f.used *)
(* is above the MaxSize the File was constructed with                   *)
C21_Witness ==
    /\ recorder # NilFD
    /\ option.MaxSize > 0 /\ option.MaxSize \notin SetSizes
    /\ used > option.MaxSize

(* C22: when a size-triggered roll finds the active file gone at the   *)
(* rename and returns nil, a handle on a new file at the path is open. *)
C22_MissingSourceStillOpens ==
    [][\A t \in Callers, n \in 0 .. MaxWrite, salt \in Salts :
         (/\ recorder # NilFD /\ Exceeds(used + n)
          /\ option.MaxSize > 0 /\ option.Backups # 0 /\ active = NoFile
          /\ Write(t, n, salt, "none")
          /\ WriteErr(n, salt, "none") = "nil")
            => (recorder' # NilFD /\ active' # NoFile)]_vars

(* C23: when os.Rename fails in a roll and the active file is there,   *)
(* Write returns an error.                                             *)
C23_RenameErrorSurfaced ==
    [][\A t \in Callers, n \in 0 .. MaxWrite, salt \in Salts :
         (/\ recorder # NilFD /\ Exceeds(used + n)
          /\ option.MaxSize > 0 /\ option.Backups # 0 /\ active # NoFile
          /\ Write(t, n, salt, "rename"))
            => WriteErr(n, salt, "rename") # "nil"]_vars

(* C24: the name a roll renames the active file to is not the name of  *)
(* a backup that is in the directory, and the roll leaves no fewer     *)
(* backups than it found.                                              *)
C24_NoBackupOverwritten ==
    [][\A t \in Callers, n \in 0 .. MaxWrite, salt \in Salts :
         (/\ recorder # NilFD /\ Exceeds(used + n)
          /\ option.MaxSize > 0 /\ option.Backups # 0 /\ active # NoFile
          /\ Write(t, n, salt, "none"))
            => /\ NextBackupFile(now, salt) \notin dir
               /\ Cardinality(dir') >= Cardinality(dir)]_vars

----------------------------------------------------------------------------
(* Properties of the lock *)

(* C25: no thread is inside the sweep while it holds f.mtx, so that a  *)
(* Write of another thread can take the lock while the sweep lists and *)
(* deletes.                                                            *)
C25_SweepOutsideLock ==
    \A t \in Threads : sweep[t].st # "idle" => mtx # t

(* a thread is inside the roll of its Write, f.mtx held, and has got *)
(* to the sweep the roll runs itself                                *)
Rolling == \E u \in Threads : mtx = u /\ pc[u] = "sweep"

(* C26: the mutators take f.mtx, so that no policy field changes while *)
(* a roll is executing: the Backups that the roll tested before the    *)
(* rename and before the cleanup is the Backups its sweep reads.       *)
C26_MutatorsUnderLock ==
    [][Rolling => option'.Backups = option.Backups]_vars

----------------------------------------------------------------------------
(* Properties of what a sweep may touch *)

(* C27: every file a sweep chooses and every file it removes has the   *)
(* prefix and the extension of a backup; the active file stays.        *)
C27_OnlyBackupsDeleted ==
    [][\A e \in Executors :
         /\ Listed(e) => \A nm \in sweep'[e].del : HasPrefix(nm) /\ HasSuffix(nm)
         /\ Deleted(e) => /\ \A nm \in dir \ dir' : HasPrefix(nm) /\ HasSuffix(nm)
                          /\ active' = active]_vars

(* a sweep under Backups = 0 has chosen its files in a directory that  *)
(* holds the active file and the files of other programs               *)
C27_Witness ==
    \E e \in Executors :
        /\ sweep[e].st = "listed"
        /\ option.Backups = 0
        /\ sweep[e].del # {}
        /\ Others \subseteq dir
        /\ active # NoFile

----------------------------------------------------------------------------
(* Properties of the byte counter and of the ticker *)

(* C28: while a handle is open on the active file and no Write holds  *)
(* the lock, f.used is the size of the active file.                   *)
C28_UsedIsFileSize ==
    (recorder # NilFD /\ active # NoFile /\ mtx = 0) => used = active

(* C30: a step that opens a handle on a File in duration mode that   *)
(* has no ticker arms the ticker, and a Close that returns nil leaves *)
(* the ticker nil.                                                    *)
C30_TickerLifecycle ==
    [][/\ (/\ recorder = NilFD /\ recorder' # NilFD
           /\ HasBit(mode, DurationRotate) /\ ticker = "nil")
              => ticker' = "armed"
       /\ \A t \in Callers : Close(t, "none") => ticker' = "nil"]_vars

----------------------------------------------------------------------------
(* Properties of a sweep whose listing fails *)

(* C29: when os.ReadDir fails, cleanBackups returns the error and no   *)
(* file is deleted; a blocking CleanBackups returns that error to its  *)
(* caller, and f.cleaning is false when the executor has returned.     *)
C29_ListFailure ==
    [][\A e \in Executors :
         (sweep[e].st = "start" /\ SweepList(e, "list"))
            => /\ cleanBackupsErr("list") # "nil"
               /\ dir' = dir /\ active' = active
               /\ sweep'[e] = Idle
               /\ ~cleaning'
               /\ e \in Threads =>
                     /\ CleanBackupsErr(TRUE, "list") = cleanBackupsErr("list")
                     /\ pc'[e] = "idle"]_vars

(* a caller of CleanBackups in blocking mode is about to list a       *)
(* directory that holds backups                                       *)
C29_Witness ==
    \E t \in Threads :
        /\ sweep[t].st = "start"
        /\ cleaning
        /\ BackupFiles(dir) # {}

----------------------------------------------------------------------------
(* Properties of the backup names *)

(* C31: the name a size-triggered roll gives its backup sorts strictly *)
(* after the name of every backup that an earlier roll has left in the *)
(* directory.                                                          *)
C31_NamesSortByCreation ==
    [][option.MaxSize > 0
         => \A nm \in dir' \ dir : \A old \in dir : NameLess(old, nm)]_vars

----------------------------------------------------------------------------
(* Progress of the sweep and of Close *)

(* C32: f.cleaning is true only while an executor is inside the sweep, *)
(* and once it is true it becomes false again, whether the listing     *)
(* fails or not, for callers and for the goroutine (unless the process *)
(* has died of a panic meanwhile).                                     *)
C32_FlagReleased ==
    /\ [](cleaning => Sweeping # {})
    /\ (cleaning ~> (~cleaning \/ crashed))

(* the goroutine holds the flag and has chosen files to delete *)
C32_Witness ==
    /\ cleaning
    /\ sweep[Goroutine].st = "listed"
    /\ sweep[Goroutine].del # {}

----------------------------------------------------------------------------
(* Mode bits and the policy fields *)

(* C33: once the File is constructed, and after any sequence of         *)
(* SetDuration and SetMaxSize, the SizeRotate bit of mode is set exactly *)
(* when option.MaxSize > 0 and the DurationRotate bit exactly when       *)
(* option.Duration > 0.                                                  *)
C33_ModeMatchesPolicy ==
    constructed =>
        /\ HasBit(mode, SizeRotate) <=> option.MaxSize > 0
        /\ HasBit(mode, DurationRotate) <=> option.Duration > 0

(* a File whose size bit a setter has cleared while the duration bit is set *)
C33_Witness ==
    /\ constructed
    /\ option.MaxSize = -1
    /\ ~HasBit(mode, SizeRotate)
    /\ option.Duration > 0
    /\ HasBit(mode, DurationRotate)

----------------------------------------------------------------------------
(* The lock around Write, the roll and Close *)

(* thread t enters Write or Close *)
Enters(t) ==
    \/ \E n \in 0 .. MaxWrite : \E inp \in WriteInputs(n) : Write(t, n, inp[2], inp[1])
    \/ CloseLock(t)
    \/ pc[t] = "idle" /\ \E flt \in CloseFaults : Close(t, flt)

(* C34: with two callers of Write and Close interleaved, a caller gets   *)
(* into the section of Write, the roll and Close only when no caller is  *)
(* in it, so no Write reaches the handle while another caller's roll or  *)
(* Close is under way; and the section is left only by the return of the *)
(* caller that is in it.                                                 *)
C34_MutualExclusion ==
    [][/\ \A t \in Threads : Enters(t) => mtx = 0
       /\ (mtx # 0 /\ mtx' # mtx)
             => mtx' = 0 /\ pc[mtx] # "idle" /\ pc'[mtx] = "idle"]_vars

(* one caller is inside Close, waiting for the sweep, while the other is *)
(* idle with an open handle and a Write of its own to make               *)
C34_Witness ==
    /\ mtx = 1
    /\ pc[1] = "closing"
    /\ pc[2] = "idle"
    /\ recorder # NilFD
    /\ used > 0

----------------------------------------------------------------------------
(* The age cut on any directory *)

(* C35: a sweep with MaxAge > 0 gets through its listing whatever names  *)
(* that pass the backup predicate the directory holds, names shorter than *)
(* the prefix and the time format together included: the step that cuts  *)
(* by age does not abort.                                                *)
C35_AgeSweepCompletes ==
    [][\A e \in Executors :
          (/\ option.MaxAge > 0
           /\ \E flt \in ListFaults : SweepList(e, flt))
             => ~crashed']_vars

----------------------------------------------------------------------------
(* The wait of Close *)

====
